---- MODULE Spec2Model ----
(***************************************************************************)
(* A model of kittenx, a text-to-speech runtime: the symbol table and the  *)
(* text cleaner (tts/text_cleaner.rs), the phonemizer adapter              *)
(* (tts/phonemizer.rs), the synthesizer facade and its voice bank          *)
(* (tts/kitten.rs), the audio trimmer (utils/audio.rs) and the asset       *)
(* download (utils/download.rs).                                           *)
(*                                                                         *)
(* A character is its Unicode code point, a string the sequence of its     *)
(* code points.                                                            *)
(***************************************************************************)
EXTENDS Integers, Sequences, FiniteSets, TLC

VARIABLES
  symIdx,      \* SYMBOL_TO_ID initializer: number of symbols inserted so far
  symMap,      \* SYMBOL_TO_ID initializer: the HashMap<char, i64> being built
  archive,     \* voices.npz as load_voices reads it: name -> stored entry
  voices,      \* KittenTTS.voices: HashMap<String, Array1<f32>>
  pc,          \* per thread: where its generate call stands
  call,        \* per thread: the arguments (text, voice, speed) of its call
  phonemes,    \* per thread: the local `phonemes`
  tokens,      \* per thread: the local `tokens`
  result,      \* per thread: what its last generate call returned
  mutex,       \* KittenTTS.model: the thread holding the Mutex, or NoThread
  trimIn,      \* trim_silence: its arguments (audio and parameters)
  trimOut,     \* trim_silence: the vector it returned
  trimLocals,  \* trim_silence: its local variables as of line 129
  trimPc,      \* trim_silence: "in" before the call, "out" after it
  disk,        \* model_dir: per file, Absent or the number of chunks written
  provPc,      \* with_provider: where the construction of the facade stands
  provFile,    \* with_provider: the index of the file being provisioned
  downloaded,  \* with_provider: the files download_file was called for, in order
  response,    \* download_file: the body it holds, "asset", "error" or "none"
  content      \* model_dir: per file, the kind of body that was written to it

symVars == << symIdx, symMap >>
bankVars == << archive, voices >>
genVars == << pc, call, phonemes, tokens, result, mutex >>
trimVars == << trimIn, trimOut, trimLocals, trimPc >>
provVars == << disk, provPc, provFile, downloaded, response, content >>

vars == << symIdx, symMap, archive, voices, pc, call, phonemes, tokens, result, mutex,
           trimIn, trimOut, trimLocals, trimPc, disk, provPc, provFile, downloaded,
                  response, content >>

(***************************************************************************)
(* tts/text_cleaner.rs: the symbol table                                   *)
(***************************************************************************)

\* let pad = "$"
pad == << 36 >>

\* let punctuation = ";:,.!?<inverted !><inverted ?><em dash><ellipsis>\"<<>>\"\" "
punctuation ==
  << 59, 58, 44, 46, 33, 63, 161, 191, 8212, 8230, 34, 171,
     187, 34, 34, 32 >>

\* let letters = "ABC...XYZabc...xyz"
letters ==
  << 65, 66, 67, 68, 69, 70, 71, 72, 73, 74, 75, 76,
     77, 78, 79, 80, 81, 82, 83, 84, 85, 86, 87, 88,
     89, 90, 97, 98, 99, 100, 101, 102, 103, 104, 105, 106,
     107, 108, 109, 110, 111, 112, 113, 114, 115, 116, 117, 118,
     119, 120, 121, 122 >>

\* let letters_ipa = "..." (109 code points, the apostrophe 39 twice)
letters_ipa ==
  << 593, 592, 594, 230, 595, 665, 946, 596, 597, 231, 599, 598,
     240, 676, 601, 600, 602, 603, 604, 605, 606, 607, 644, 609,
     608, 610, 667, 614, 615, 295, 613, 668, 616, 618, 669, 621,
     620, 619, 622, 671, 625, 623, 624, 331, 627, 626, 628, 248,
     629, 632, 952, 339, 630, 664, 633, 634, 638, 635, 640, 641,
     637, 642, 643, 648, 679, 649, 650, 651, 11377, 652, 611, 612,
     653, 967, 654, 655, 657, 656, 658, 660, 673, 661, 674, 448,
     449, 450, 451, 712, 716, 720, 721, 700, 692, 688, 689, 690,
     695, 736, 740, 734, 8595, 8593, 8594, 8599, 8600, 39, 809, 39,
     7547 >>

\* symbols.push(pad...); symbols.extend(punctuation); extend(letters); extend(letters_ipa)
symbols == << pad[1] >> \o punctuation \o letters \o letters_ipa

EmptyMap == << >>

\* An insert that keeps the value a key already has (entry().or_insert).
MapInsertKeepFirst(m, k, v) == m @@ (k :> v)

\* HashMap::insert: the new value replaces the one the key already has.
MapInsert(m, k, v) == (k :> v) @@ m

\* for (i, symbol) in symbols.iter().enumerate() { map.insert(*symbol, i as i64); }
\* InsertRange(m, lo, hi) is m after the iterations for the positions
\* lo..hi (1-based), run in order.  The range is halved so that the
\* evaluation stays shallow: the second half runs on the result of the first.
RECURSIVE InsertRange(_, _, _)
InsertRange(m, lo, hi) ==
  IF lo > hi THEN m
  ELSE IF lo = hi THEN MapInsert(m, symbols[lo], lo - 1)
  ELSE LET mid == (lo + hi) \div 2
           first == InsertRange(<< >>, lo, mid)
           second == InsertRange(first, mid + 1, hi)
       IN second @@ m

BuildMap(n) == InsertRange(<< >>, 1, n)

SYMBOL_TO_ID == BuildMap(Len(symbols))

(***************************************************************************)
(* The initializer of SYMBOL_TO_ID as a state machine, one step per        *)
(* iteration of its loop.                                                  *)
(***************************************************************************)
SymInit ==
  /\ symIdx = 0
  /\ symMap = EmptyMap

SymInsert ==
  /\ symIdx < Len(symbols)
  /\ symMap' = MapInsert(symMap, symbols[symIdx + 1], symIdx)
  /\ symIdx' = symIdx + 1
  /\ UNCHANGED << archive, voices, pc, call, phonemes, tokens, result, mutex,
                  trimIn, trimOut, trimLocals, trimPc, disk, provPc, provFile, downloaded,
                  response, content >>

SymDone == symIdx = Len(symbols)

(***************************************************************************)
(* tts/text_cleaner.rs: TextCleaner::clean                                 *)
(***************************************************************************)

\* for ch in text.chars() { if let Some(&id) = SYMBOL_TO_ID.get(&ch) { tokens.push(id) } }
RECURSIVE clean(_)
clean(text) ==
  IF text = << >> THEN << >>
  ELSE LET ch == text[Len(text)]
           front == clean(SubSeq(text, 1, Len(text) - 1))
       IN IF ch \in DOMAIN SYMBOL_TO_ID
          THEN Append(front, SYMBOL_TO_ID[ch])
          ELSE front

(***************************************************************************)
(* tts/phonemizer.rs                                                       *)
(***************************************************************************)

\* The regex class \w on the characters the model's strings are made of
\* (ASCII and the IPA letter U+0259): digits, letters, underscore, schwa.
IsWordChar(c) ==
  \/ c \in 48..57
  \/ c \in 65..90
  \/ c = 95
  \/ c \in 97..122
  \/ c = 601

\* The regex class \s: tab, line feed, vertical tab, form feed, carriage
\* return, space.
IsSpaceChar(c) == c \in {9, 10, 11, 12, 13, 32}

\* The length of the longest run of word characters at the head of s.
RECURSIVE WordRun(_)
WordRun(s) ==
  IF s = << >> \/ ~IsWordChar(Head(s)) THEN 0
  ELSE 1 + WordRun(Tail(s))

\* Regex::new(r"\w+|[^\w\s]").find_iter(text): the matches left to right.
RECURSIVE basic_english_tokenize(_)
basic_english_tokenize(text) ==
  IF text = << >> THEN << >>
  ELSE IF IsWordChar(Head(text))
       THEN LET n == WordRun(text)
            IN << SubSeq(text, 1, n) >>
                 \o basic_english_tokenize(SubSeq(text, n + 1, Len(text)))
       ELSE IF IsSpaceChar(Head(text))
            THEN basic_english_tokenize(Tail(text))
            ELSE << << Head(text) >> >> \o basic_english_tokenize(Tail(text))

\* tokens.join(" ")
RECURSIVE JoinSpace(_)
JoinSpace(toks) ==
  IF toks = << >> THEN << >>
  ELSE IF Len(toks) = 1 THEN toks[1]
       ELSE toks[1] \o << 32 >> \o JoinSpace(Tail(toks))

\* text_to_phonemes_simple: espeak is an external generator; g2p is what it
\* returned for (text, language): Ok with the joined phoneme string, or Err.
\* Both arms return Ok, so generate's own fallback closure never runs.
text_to_phonemes_simple(text, g2p) ==
  IF g2p.ok
  THEN JoinSpace(basic_english_tokenize(g2p.phonemes))
  ELSE JoinSpace(basic_english_tokenize(text))

(***************************************************************************)
(* tts/kitten.rs: the voice bank                                           *)
(***************************************************************************)

\* let voice_names = [ ... ] and available_voices = vec![ ... ]
voice_names ==
  << "expr-voice-2-m", "expr-voice-2-f", "expr-voice-3-m", "expr-voice-3-f",
     "expr-voice-4-m", "expr-voice-4-f", "expr-voice-5-m", "expr-voice-5-f" >>

available_voices == { voice_names[i] : i \in 1..Len(voice_names) }

\* The width of the placeholder embedding, Array1::zeros(256).
StyleWidth == 256

\* A width other than StyleWidth that a stored array may have.
OtherWidth == 128

\* An f32 vector is modelled by its length and the value that fills it.
Vector(n, v) == [len |-> n, fill |-> v]

\* What voices.npz may hold under a name: nothing, an entry that is not a
\* 1-D f32 array, or a 1-D f32 array (here of one of two widths, filled
\* with a non-zero value).
ArchiveEntries ==
  { [kind |-> "absent"], [kind |-> "unreadable"] }
    \cup { [kind |-> "array", data |-> Vector(w, 1)] : w \in {StyleWidth, OtherWidth} }

Archives == [available_voices -> ArchiveEntries]

\* One iteration of `for voice_name in &voice_names`: npz.by_name gives Ok for a
\* 1-D f32 array of any length, Err for anything else.
LoadVoice(bank, arch, name) ==
  IF arch[name].kind = "array"
  THEN MapInsert(bank, name, arch[name].data)
  ELSE MapInsert(bank, name, Vector(StyleWidth, 0))

RECURSIVE LoadVoicesUpTo(_, _)
LoadVoicesUpTo(arch, n) ==
  IF n = 0 THEN EmptyMap
  ELSE LoadVoice(LoadVoicesUpTo(arch, n - 1), arch, voice_names[n])

\* load_voices on an archive that opens and parses; the bank is never empty
\* after the loop, so the bail on voices.is_empty() is never taken.
load_voices(arch) == LoadVoicesUpTo(arch, Len(voice_names))

(***************************************************************************)
(* tts/kitten.rs: KittenTTS::generate, called by NThreads threads on one   *)
(* facade.  A call is three steps: everything up to the lock (it touches   *)
(* no shared mutable state), the lock with the entry into infer, and the   *)
(* return of infer with the rest of generate.                              *)
(***************************************************************************)

NThreads == 2

Threads == 1..NThreads

NoThread == 0

\* The texts, voices and speeds the calls are made with: "", "hi", "1#";
\* a canonical name and another one; the speeds -1.0, 0.0 and 1.0.
Texts == { << >>, << 104, 105 >>, << 49, 35 >> }

VoiceArgs == { "expr-voice-5-m", "nonexistent" }

Speeds == { -1, 0, 1 }

\* What espeak may return for a text: Err, or Ok with one of these phoneme
\* strings: "h<schwa>,", "1".
EspeakOutcomes ==
  { [ok |-> FALSE] }
    \cup { [ok |-> TRUE, phonemes |-> ph] : ph \in { << 104, 601, 44 >>, << 49 >> } }

\* The lengths of the waveform the graph may return.
RawLens == { 4000, 15000, 15001 }

NoCall == [text |-> << >>, voice |-> "", speed |-> 0, made |-> FALSE]

Args(text, voice, speed) == [text |-> text, voice |-> voice, speed |-> speed, made |-> TRUE]

NoResult == [kind |-> "none"]

Err(msg) == [kind |-> "Err", error |-> msg]

\* tokens.insert(0, 0) only.
PadTokensFrontOnly(toks) == << 0 >> \o toks

\* tokens.insert(0, 0); tokens.push(0);
PadTokens(toks) == << 0 >> \o toks \o << 0 >>

\* A lock that is granted whoever holds it.
CanLockUnguarded(t) == TRUE

\* Mutex::lock returns once no thread holds the mutex.
CanLock(t) == mutex = NoThread

\* A voice check that lets every name through.
VoiceAvailableAny(voice) == TRUE

\* self.available_voices.contains(&voice.to_string())
VoiceAvailable(voice) == voice \in available_voices

\* let start_trim = 5000.min(len); let end_trim = 10000.min(len - start_trim);
\* the slice [start_trim, len - end_trim) when len > start_trim + end_trim,
\* the whole waveform otherwise.  A waveform is modelled by its bounds in
\* the raw output.
Min(a, b) == IF a < b THEN a ELSE b

Max(a, b) == IF a > b THEN a ELSE b

\* The strip without the fallback of the else branch: always the slice
\* [start_trim, len - end_trim), empty when the waveform is too short.
FixedTrimAlwaysSlice(len) ==
  LET start_trim == Min(5000, len)
      end_trim == Min(10000, len - start_trim)
  IN [kind |-> "Ok", from |-> start_trim, to |-> len - end_trim, raw |-> len]

FixedTrim(len) ==
  LET start_trim == Min(5000, len)
      end_trim == Min(10000, len - start_trim)
  IN IF len > start_trim + end_trim
     THEN [kind |-> "Ok", from |-> start_trim, to |-> len - end_trim, raw |-> len]
     ELSE [kind |-> "Ok", from |-> 0, to |-> len, raw |-> len]

\* Lines 123-156: the voice check, phonemization, encoding, voice lookup.
GenerateCallFrom(t, texts, speeds) ==
  /\ pc[t] = "idle"
  /\ \E text \in texts, voice \in VoiceArgs, speed \in speeds :
       /\ call' = [call EXCEPT ![t] = Args(text, voice, speed)]
       /\ IF ~VoiceAvailable(voice)
          THEN /\ result' = [result EXCEPT ![t] = Err("UnknownVoice")]
               /\ pc' = [pc EXCEPT ![t] = "done"]
               /\ UNCHANGED << phonemes, tokens >>
          ELSE \E g2p \in EspeakOutcomes :
                 LET ph == text_to_phonemes_simple(text, g2p)
                 IN /\ phonemes' = [phonemes EXCEPT ![t] = ph]
                    /\ tokens' = [tokens EXCEPT ![t] = PadTokens(clean(ph))]
                    /\ IF voice \in DOMAIN voices
                       THEN /\ pc' = [pc EXCEPT ![t] = "ready"]
                            /\ UNCHANGED result
                       ELSE /\ pc' = [pc EXCEPT ![t] = "done"]
                            /\ result' = [result EXCEPT ![t] = Err("VoiceNotFound")]
  /\ UNCHANGED << mutex, voices, archive, symVars, trimVars, provVars >>

GenerateCall(t) == GenerateCallFrom(t, Texts, Speeds)

\* Lines 159-160: self.model.lock().unwrap(), then model.infer(input_ids, style, speed).
LockAndInfer(t) ==
  /\ pc[t] = "ready"
  /\ CanLock(t)
  /\ mutex' = t
  /\ pc' = [pc EXCEPT ![t] = "infer"]
  /\ UNCHANGED << call, phonemes, tokens, result, voices, archive, symVars, trimVars, provVars >>

\* infer returns Err and generate returns with the guard still alive: the
\* mutex stays locked.
InferErrHoldingLock(t) ==
  /\ pc[t] = "infer"
  /\ pc' = [pc EXCEPT ![t] = "done"]
  /\ result' = [result EXCEPT ![t] = Err("InferenceFailed")]
  /\ phonemes' = [phonemes EXCEPT ![t] = << >>]
  /\ tokens' = [tokens EXCEPT ![t] = << >>]
  /\ UNCHANGED << mutex, call, voices, archive, symVars, trimVars, provVars >>

\* infer returns Err (the `?` of line 161 returns from generate), the guard
\* dropped on the way out.
InferErr(t) ==
  /\ pc[t] = "infer"
  /\ mutex' = NoThread
  /\ pc' = [pc EXCEPT ![t] = "done"]
  /\ result' = [result EXCEPT ![t] = Err("InferenceFailed")]
  /\ phonemes' = [phonemes EXCEPT ![t] = << >>]
  /\ tokens' = [tokens EXCEPT ![t] = << >>]
  /\ UNCHANGED << call, voices, archive, symVars, trimVars, provVars >>

\* infer returns Ok with a waveform; the guard is dropped at the end of the
\* block, then lines 164-176 trim and return.
InferOkFrom(t, lens) ==
  /\ pc[t] = "infer"
  /\ \E len \in lens :
       result' = [result EXCEPT ![t] = FixedTrim(len)]
  /\ mutex' = NoThread
  /\ pc' = [pc EXCEPT ![t] = "done"]
  /\ phonemes' = [phonemes EXCEPT ![t] = << >>]
  /\ tokens' = [tokens EXCEPT ![t] = << >>]
  /\ UNCHANGED << call, voices, archive, symVars, trimVars, provVars >>

InferOk(t) == InferOkFrom(t, RawLens)

\* The caller has the result; the thread is free to call generate again.
Return(t) ==
  /\ pc[t] = "done"
  /\ pc' = [pc EXCEPT ![t] = "idle"]
  /\ call' = [call EXCEPT ![t] = NoCall]
  /\ result' = [result EXCEPT ![t] = NoResult]
  /\ phonemes' = [phonemes EXCEPT ![t] = << >>]
  /\ tokens' = [tokens EXCEPT ![t] = << >>]
  /\ UNCHANGED << mutex, voices, archive, symVars, trimVars, provVars >>

\* The arguments infer is running with in thread t.
InferArgs(t) ==
  [input_ids |-> << tokens[t] >>, style |-> voices[call[t].voice], speed |-> call[t].speed]

\* The archive the facade of the generate model was built from: two voices
\* stored, one of them with another width, the rest absent.
SampleArchive ==
  [n \in available_voices |->
     IF n = "expr-voice-5-m" THEN [kind |-> "array", data |-> Vector(StyleWidth, 1)]
     ELSE IF n = "expr-voice-2-f" THEN [kind |-> "array", data |-> Vector(OtherWidth, 1)]
     ELSE [kind |-> "absent"]]

(***************************************************************************)
(* utils/audio.rs: the trimmer.  A sample is a rational number, a record   *)
(* [num, den] in lowest terms with den > 0; the f32 and f64 operations of  *)
(* the code are modelled as exact arithmetic.  Durations are whole         *)
(* milliseconds, top_db is a multiple of 10.                               *)
(***************************************************************************)

RECURSIVE GCD(_, _)
GCD(a, b) == IF b = 0 THEN a ELSE GCD(b, a % b)

Abs(a) == IF a < 0 THEN -a ELSE a

Q(n) == [num |-> n, den |-> 1]

\* s * (a / b), for a >= 0 and b > 0
Scale(s, a, b) ==
  LET n == s.num * a
      d == s.den * b
      g == GCD(Abs(n), d)
  IN [num |-> n \div g, den |-> d \div g]

\* ((ms / 1000.0) * sr) as usize
MsToSamples(ms, sr) == (ms * sr) \div 1000

RECURSIVE SumSquares(_)
SumSquares(frame) ==
  IF frame = << >> THEN 0
  ELSE Head(frame).num * Head(frame).num + SumSquares(Tail(frame))

\* rms_frames: the frames start at 0, hop_len, 2 * hop_len, ... below
\* audio.len(), each frame_len samples long or cut at the end of the audio.
\* The RMS sqrt(sum / n) of a frame is kept as the pair (sum, n); the
\* samples rms_frames is given here are whole numbers.
RECURSIVE FramesFrom(_, _, _, _)
FramesFrom(audio, frame_len, hop_len, start) ==
  LET end == Min(start + frame_len, Len(audio))
      frame == SubSeq(audio, start + 1, end)
      e == [sum |-> SumSquares(frame), n |-> Len(frame)]
  IN IF start + hop_len >= Len(audio) THEN << e >>
     ELSE << e >> \o FramesFrom(audio, frame_len, hop_len, start + hop_len)

rms_frames(audio, frame_len, hop_len) ==
  IF audio = << >> \/ frame_len = 0 THEN << >>
  ELSE FramesFrom(audio, frame_len, hop_len, 0)

\* a > b on two RMS values
RmsGreater(a, b) == a.sum * b.n > b.sum * a.n

\* env.iter().fold(&0.0f32, |a, b| if b > a { b } else { a })
RECURSIVE MaxRms(_, _)
MaxRms(env, acc) ==
  IF env = << >> THEN acc
  ELSE MaxRms(Tail(env), IF RmsGreater(Head(env), acc) THEN Head(env) ELSE acc)

RECURSIVE Pow10(_)
Pow10(k) == IF k = 0 THEN 1 ELSE 10 * Pow10(k - 1)

\* e >= threshold, threshold = ref_rms * 10^(-top_db / 20): on the squares,
\* e^2 * 10^(top_db / 10) >= ref_rms^2.
Voiced(e, ref, top_db) ==
  e.sum * ref.n * Pow10(top_db \div 10) >= ref.sum * e.n

\* The start scan answering the frame that completes the run, not the one
\* that begins it.
RECURSIVE StartScanAtRunEnd(_, _, _, _, _)
StartScanAtRunEnd(env, ref, top_db, i, run) ==
  IF i >= Len(env) THEN 0
  ELSE LET r == IF Voiced(env[i + 1], ref, top_db) THEN run + 1 ELSE 0
       IN IF r >= 2 THEN i
          ELSE StartScanAtRunEnd(env, ref, top_db, i + 1, r)

\* Lines 94-102: the loop over env from the left, at index i (0-based) with
\* `run` voiced frames in a row before it.
RECURSIVE StartScan(_, _, _, _, _)
StartScan(env, ref, top_db, i, run) ==
  IF i >= Len(env) THEN 0
  ELSE LET r == IF Voiced(env[i + 1], ref, top_db) THEN run + 1 ELSE 0
       IN IF r >= 2 THEN Max(i - 1, 0)
          ELSE StartScan(env, ref, top_db, i + 1, r)

\* The end scan answering the frame that completes the run met from the
\* right, the earlier of the two.
RECURSIVE EndScanAtRunStart(_, _, _, _, _)
EndScanAtRunStart(env, ref, top_db, i, run) ==
  IF i < 0 THEN Max(Len(env) - 1, 0)
  ELSE LET r == IF Voiced(env[i + 1], ref, top_db) THEN run + 1 ELSE 0
       IN IF r >= 2 THEN i
          ELSE EndScanAtRunStart(env, ref, top_db, i - 1, r)

\* Lines 105-114: the loop over env from the right.
RECURSIVE EndScan(_, _, _, _, _)
EndScan(env, ref, top_db, i, run) ==
  IF i < 0 THEN Max(Len(env) - 1, 0)
  ELSE LET r == IF Voiced(env[i + 1], ref, top_db) THEN run + 1 ELSE 0
       IN IF r >= 2 THEN Min(i + 1, Max(Len(env) - 1, 0))
          ELSE EndScan(env, ref, top_db, i - 1, r)

\* let gain = i / fade_out_samples; audio[idx] *= 1.0 - gain; as a fraction
FadeOutGain(i, fade_out_samples) == << fade_out_samples - i, fade_out_samples >>

\* let gain = i / fade_in_samples; audio[i] *= gain; as a fraction
FadeInGain(i, fade_in_samples) == << i, fade_in_samples >>

\* apply_fade_in_out: the first loop scales the samples 0 .. min(fade_in, n),
\* the second the samples n-1-i for i in 0 .. min(fade_out, n).
apply_fade_in_out(audio, sample_rate, fade_in_ms, fade_out_ms) ==
  LET fade_in_samples == Max(MsToSamples(fade_in_ms, sample_rate), 0)
      fade_out_samples == Max(MsToSamples(fade_out_ms, sample_rate), 0)
      n == Len(audio)
      FadedIn(k) ==
        IF k < Min(fade_in_samples, n)
        THEN LET g == FadeInGain(k, fade_in_samples) IN Scale(audio[k + 1], g[1], g[2])
        ELSE audio[k + 1]
      FadedOut(k) ==
        IF n - 1 - k < Min(fade_out_samples, n)
        THEN LET g == FadeOutGain(n - 1 - k, fade_out_samples)
             IN Scale(FadedIn(k), g[1], g[2])
        ELSE FadedIn(k)
  IN [k \in 1..n |-> FadedOut(k - 1)]

\* ceil(a / b) for a >= 0, b > 0
CeilDiv(a, b) == (a + b - 1) \div b

\* A silent input answered with an empty vector.
SilentInputDropped(audio) == << >>

\* if ref_rms <= 0.0 { return audio.to_vec(); }
SilentInput(audio) == audio

\* audio[start_sample..end_sample].to_vec()
TrimSlice(audio, start_sample, end_sample) == SubSeq(audio, start_sample + 1, end_sample)

\* ((ms / 1000.0) * sr).max(1.0) as usize: frame_len and hop_len
FrameLen(ms, sample_rate) == Max(MsToSamples(ms, sample_rate), 1)

\* A head gate that also resets when the silence is exactly as long as the
\* minimum.
HeadGateInclusive(start_sample, hop_len, min_silence_frames) ==
  LET head_silence_frames == start_sample \div hop_len
  IN IF head_silence_frames <= min_silence_frames THEN 0 ELSE start_sample

\* Lines 120-124: start_sample after the head gate.
HeadGate(start_sample, hop_len, min_silence_frames) ==
  LET head_silence_frames == start_sample \div hop_len
  IN IF head_silence_frames < min_silence_frames THEN 0 ELSE start_sample

\* Lines 126-129: end_sample after the tail gate.
TailGate(end_sample, len, hop_len, min_silence_frames) ==
  LET tail_silence_frames == Max(len - end_sample, 0) \div hop_len
  IN IF tail_silence_frames < min_silence_frames THEN len ELSE end_sample

\* The locals of a call that returned before line 91; frames is env.len().
NoLocals ==
  [reached |-> FALSE, frames |-> 0, hop_len |-> 0, min_silence_frames |-> 0, voiced |-> << >>,
   start_frame |-> 0, end_frame |-> 0, start_sample |-> 0, end_sample |-> 0]

\* Lines 80-129: the local variables of trim_silence after the two gates;
\* voiced[i + 1] is e >= threshold for frame i of env.
TrimLocals(audio, sample_rate, top_db, frame_ms, hop_ms, min_silence_ms) ==
  LET frame_len == FrameLen(frame_ms, sample_rate)
      hop_len == FrameLen(hop_ms, sample_rate)
      min_silence_frames == CeilDiv(min_silence_ms * sample_rate, 1000 * hop_len)
      env == rms_frames(audio, frame_len, hop_len)
      ref_rms == MaxRms(env, [sum |-> 0, n |-> 1])
      start_frame == StartScan(env, ref_rms, top_db, 0, 0)
      end_frame == EndScan(env, ref_rms, top_db, Len(env) - 1, 0)
      start_sample0 == start_frame * hop_len
      end_sample0 == Min((end_frame + 1) * hop_len, Len(audio))
  IN IF audio = << >> THEN NoLocals
     ELSE IF env = << >> \/ ref_rms.sum <= 0 THEN [NoLocals EXCEPT !.frames = Len(env)]
     ELSE [reached |-> TRUE,
           frames |-> Len(env),
           hop_len |-> hop_len,
           min_silence_frames |-> min_silence_frames,
           voiced |-> [k \in 1..Len(env) |-> Voiced(env[k], ref_rms, top_db)],
           start_frame |-> start_frame,
           end_frame |-> end_frame,
           start_sample |-> HeadGate(start_sample0, hop_len, min_silence_frames),
           end_sample |-> TailGate(end_sample0, Len(audio), hop_len, min_silence_frames)]

\* Lines 78, 85, 87 and 131-145: what trim_silence returns, given its locals.
TrimResult(audio, locals, sample_rate, end_padding_ms) ==
  LET pad_samples == MsToSamples(end_padding_ms, sample_rate)
      end_sample == Min(locals.end_sample + pad_samples, Len(audio))
      start_pad == MsToSamples(5, sample_rate)
      start_sample == Max(locals.start_sample - start_pad, 0)
  IN IF audio = << >> THEN << >>
     ELSE IF locals.frames = 0 THEN audio
     ELSE IF ~locals.reached THEN SilentInput(audio)
     ELSE IF start_sample >= end_sample THEN audio
     ELSE apply_fade_in_out(TrimSlice(audio, start_sample, end_sample), sample_rate, 5, 10)

trim_silence(audio, sample_rate, top_db, frame_ms, hop_ms, min_silence_ms, end_padding_ms) ==
  TrimResult(audio,
             TrimLocals(audio, sample_rate, top_db, frame_ms, hop_ms, min_silence_ms),
             sample_rate, end_padding_ms)

\* The inputs trim_silence is applied to: every audio of at most
\* MaxAudioLen samples drawn from SampleValues, under each combination of
\* the parameter values below.
MaxAudioLen == 6

SampleValues == { 0, 1, 20 }

Audios == UNION { [1..n -> { Q(v) : v \in SampleValues }] : n \in 0..MaxAudioLen }

TrimParams ==
  [ sample_rate : { 100, 200, 400 },
    top_db : { 0, 20 },
    frame_ms : { 10, 25 },
    hop_ms : { 5, 10 },
    min_silence_ms : { 0, 10 },
    end_padding_ms : { 0, 5 } ]

(***************************************************************************)
(* utils/download.rs and KittenTTS::with_provider: the provisioning of the *)
(* three files and the construction of the facade.  A file's content is    *)
(* written in FileChunks chunks; the process may be killed at any step and *)
(* run again.                                                              *)
(***************************************************************************)

\* config_path, model_path, voices_path, in the order with_provider checks them
Files == << "config.json", "kitten_tts_nano_v0_1.onnx", "voices.npz" >>

FileSet == { Files[i] : i \in 1..Len(Files) }

FileChunks == 2

Absent == -1

Exists(f) == disk[f] # Absent

Complete(f) == disk[f] = FileChunks

Running == provPc \in {"check", "fetch", "create", "write", "session", "voices"}

\* Where with_provider goes after the file k: the next file, or the session.
AfterFile(k) ==
  /\ provFile' = k + 1
  /\ provPc' = IF k = Len(Files) THEN "session" ELSE "check"

\* if !path.exists() { download_file(url, &path).await?; }
CheckFile ==
  /\ provPc = "check"
  /\ IF Exists(Files[provFile])
     THEN /\ AfterFile(provFile)
          /\ UNCHANGED downloaded
     ELSE /\ provPc' = "fetch"
          /\ downloaded' = Append(downloaded, Files[provFile])
          /\ UNCHANGED provFile
  /\ UNCHANGED << disk, response, content, symVars, bankVars, genVars, trimVars >>

\* let response = reqwest::get(url).await?; let bytes = response.bytes().await?;
\* the server answers with the asset.
FetchOk ==
  /\ provPc = "fetch"
  /\ provPc' = "create"
  /\ response' = "asset"
  /\ UNCHANGED << disk, provFile, downloaded, content, symVars, bankVars, genVars, trimVars >>

\* The server answers with an error status (404, 429, 503): reqwest::get
\* returns Ok for any status and the code never asks for the status, so
\* bytes is the body of the error answer and download_file goes on.
FetchErrorStatus ==
  /\ provPc = "fetch"
  /\ provPc' = "create"
  /\ response' = "error"
  /\ UNCHANGED << disk, provFile, downloaded, content, symVars, bankVars, genVars, trimVars >>

\* The request fails: the `?` returns the error from download_file and from
\* with_provider.
FetchErr ==
  /\ provPc = "fetch"
  /\ provPc' = "failed"
  /\ UNCHANGED << disk, provFile, downloaded, response, content,
                  symVars, bankVars, genVars, trimVars >>

\* let mut file = fs::File::create(path).await?; the file is there, empty,
\* and what is written to it from here on is `bytes`.
CreateFile ==
  /\ provPc = "create"
  /\ disk' = [disk EXCEPT ![Files[provFile]] = 0]
  /\ content' = [content EXCEPT ![Files[provFile]] = response]
  /\ provPc' = "write"
  /\ UNCHANGED << provFile, downloaded, response, symVars, bankVars, genVars, trimVars >>

\* file.write_all(&bytes).await?; one chunk of it.  After the last chunk
\* download_file returns Ok and with_provider goes on.
WriteChunk ==
  /\ provPc = "write"
  /\ disk' = [disk EXCEPT ![Files[provFile]] = @ + 1]
  /\ IF disk[Files[provFile]] + 1 = FileChunks
     THEN /\ AfterFile(provFile)
          /\ response' = "none"
     ELSE UNCHANGED << provPc, provFile, response >>
  /\ UNCHANGED << downloaded, content, symVars, bankVars, genVars, trimVars >>

\* The file holds the whole asset: all its chunks, of the asset's body.
Readable(f) == Complete(f) /\ content[f] = "asset"

\* KittenOnnx::with_provider(model_path, provider)?: commit_from_file parses
\* the graph, which a truncated file or an error page is not.
OpenSession ==
  /\ provPc = "session"
  /\ provPc' = IF Readable("kitten_tts_nano_v0_1.onnx") THEN "voices" ELSE "failed"
  /\ UNCHANGED << disk, provFile, downloaded, response, content,
                  symVars, bankVars, genVars, trimVars >>

\* let voices = Self::load_voices(&voices_path)?; NpzReader::new fails on a
\* truncated archive or an error page.  Then Ok(Self { .. }).
LoadVoices ==
  /\ provPc = "voices"
  /\ IF Readable("voices.npz")
     THEN /\ voices' = load_voices(archive)
          /\ provPc' = "built"
     ELSE /\ provPc' = "failed"
          /\ UNCHANGED voices
  /\ UNCHANGED << archive, disk, provFile, downloaded, response, content,
                  symVars, genVars, trimVars >>

\* The process is killed.
Crash ==
  /\ Running
  /\ provPc' = "crashed"
  /\ response' = "none"
  /\ UNCHANGED << disk, provFile, downloaded, content, symVars, bankVars, genVars, trimVars >>

\* The program is run again: with_provider starts over on the directory as
\* it was left.
Restart ==
  /\ provPc \in {"crashed", "failed", "built"}
  /\ provPc' = "check"
  /\ provFile' = 1
  /\ downloaded' = << >>
  /\ voices' = EmptyMap
  /\ UNCHANGED << archive, disk, response, content, symVars, genVars, trimVars >>

(***************************************************************************)
(* The states in which a part of the program is at rest                    *)
(***************************************************************************)

NoTrim == [audio |-> << >>, sample_rate |-> 0, top_db |-> 0, frame_ms |-> 0, hop_ms |-> 0,
           min_silence_ms |-> 0, end_padding_ms |-> 0]

\* trim_silence is not in use.
TrimIdle ==
  /\ trimIn = NoTrim
  /\ trimOut = << >>
  /\ trimLocals = NoLocals
  /\ trimPc = "idle"

\* No call of generate is under way.
GenIdle ==
  /\ pc = [t \in Threads |-> "idle"]
  /\ call = [t \in Threads |-> NoCall]
  /\ phonemes = [t \in Threads |-> << >>]
  /\ tokens = [t \in Threads |-> << >>]
  /\ result = [t \in Threads |-> NoResult]
  /\ mutex = NoThread

\* The symbol table is built.
SymBuilt ==
  /\ symIdx = Len(symbols)
  /\ symMap = SYMBOL_TO_ID

\* The facade is built, every file in place.
ProvBuilt ==
  /\ disk = [f \in FileSet |-> FileChunks]
  /\ provPc = "built"
  /\ provFile = Len(Files) + 1
  /\ downloaded = << >>
  /\ response = "none"
  /\ content = [f \in FileSet |-> "asset"]

(***************************************************************************)
(* generate on a built facade                                              *)
(***************************************************************************)

GenInit ==
  /\ SymBuilt
  /\ archive = SampleArchive
  /\ voices = load_voices(SampleArchive)
  /\ GenIdle
  /\ TrimIdle
  /\ ProvBuilt

GenNext ==
  \/ \E t \in Threads : GenerateCall(t)
  \/ \E t \in Threads : LockAndInfer(t)
  \/ \E t \in Threads : InferErr(t)
  \/ \E t \in Threads : InferOk(t)
  \/ \E t \in Threads : Return(t)

SpecGen == GenInit /\ [][GenNext]_vars

\* The mutex does not look at the text, the speed or the length of the
\* waveform: under fairness generate is called with the texts that reach
\* infer, one speed and one length, over both voice arguments.
LockTexts == { << 104, 105 >>, << 49, 35 >> }

LockSpeeds == { 1 }

LockRawLens == { 15001 }

GenerateCallLock(t) == GenerateCallFrom(t, LockTexts, LockSpeeds)

InferOkLock(t) == InferOkFrom(t, LockRawLens)

GenFairNext ==
  \/ \E t \in Threads : GenerateCallLock(t)
  \/ \E t \in Threads : LockAndInfer(t)
  \/ \E t \in Threads : InferErr(t)
  \/ \E t \in Threads : InferOkLock(t)
  \/ \E t \in Threads : Return(t)

\* generate under the scheduling of threads and of the mutex: a call of
\* infer returns (session.run ends, with Ok or Err), and a free mutex with
\* threads blocked in lock() is taken by one of them.  Which one is not
\* said: std::sync::Mutex promises no fairness among the waiting threads.
GenFairness ==
  /\ \A t \in Threads : WF_vars(InferErr(t) \/ InferOkLock(t))
  /\ WF_vars(\E t \in Threads : LockAndInfer(t))

SpecGenFair == GenInit /\ [][GenFairNext]_vars /\ GenFairness

(***************************************************************************)
(* The initializer of SYMBOL_TO_ID on its own, at its first use.            *)
(***************************************************************************)
SymSpecInit ==
  /\ SymInit
  /\ archive = SampleArchive
  /\ voices = load_voices(SampleArchive)
  /\ GenIdle
  /\ TrimIdle
  /\ ProvBuilt

SpecSym == SymSpecInit /\ [][SymInsert]_vars

(***************************************************************************)
(* load_voices on its own: the last step of the construction, on every     *)
(* archive of Archives.                                                    *)
(***************************************************************************)
VoicesInit ==
  /\ SymBuilt
  /\ archive \in Archives
  /\ voices = EmptyMap
  /\ GenIdle
  /\ TrimIdle
  /\ disk = [f \in FileSet |-> FileChunks]
  /\ provPc = "voices"
  /\ provFile = Len(Files) + 1
  /\ downloaded = << >>
  /\ response = "none"
  /\ content = [f \in FileSet |-> "asset"]

VoicesLoaded == provPc = "built"

SpecVoices == VoicesInit /\ [][LoadVoices]_vars

(***************************************************************************)
(* trim_silence on its own, on every input of Audios and TrimParams        *)
(***************************************************************************)

TrimInit ==
  /\ SymBuilt
  /\ archive = SampleArchive
  /\ voices = load_voices(SampleArchive)
  /\ GenIdle
  /\ \E a \in Audios, p \in TrimParams :
       trimIn = [audio |-> a, sample_rate |-> p.sample_rate, top_db |-> p.top_db,
                 frame_ms |-> p.frame_ms, hop_ms |-> p.hop_ms,
                 min_silence_ms |-> p.min_silence_ms, end_padding_ms |-> p.end_padding_ms]
  /\ trimOut = << >>
  /\ trimLocals = NoLocals
  /\ trimPc = "in"
  /\ ProvBuilt

Trim ==
  /\ trimPc = "in"
  /\ \E locals \in { TrimLocals(trimIn.audio, trimIn.sample_rate, trimIn.top_db,
                                 trimIn.frame_ms, trimIn.hop_ms, trimIn.min_silence_ms) } :
       /\ trimLocals' = locals
       /\ trimOut' = TrimResult(trimIn.audio, locals, trimIn.sample_rate, trimIn.end_padding_ms)
  /\ trimPc' = "out"
  /\ UNCHANGED << trimIn, symVars, bankVars, genVars, provVars >>

SpecTrim == TrimInit /\ [][Trim]_vars

(***************************************************************************)
(* The construction of the facade, with crashes and new runs               *)
(***************************************************************************)

\* with_provider is called on a directory in which each file is either
\* missing or whole.
ProvInit ==
  /\ SymBuilt
  /\ archive = SampleArchive
  /\ voices = EmptyMap
  /\ GenIdle
  /\ TrimIdle
  /\ disk \in [FileSet -> {Absent, FileChunks}]
  /\ provPc = "check"
  /\ provFile = 1
  /\ downloaded = << >>
  /\ response = "none"
  /\ content = [f \in FileSet |-> "asset"]

ProvNext ==
  \/ CheckFile
  \/ FetchOk
  \/ FetchErrorStatus
  \/ FetchErr
  \/ CreateFile
  \/ WriteChunk
  \/ OpenSession
  \/ LoadVoices
  \/ Crash
  \/ Restart

SpecProv == ProvInit /\ [][ProvNext]_vars

(***************************************************************************)
(* Properties of generate (SpecGen)                                        *)
(***************************************************************************)

InCall(t) == call[t].made

\* C1: generate with the empty text returns an InvalidArgument error before
\* any model call: the thread never waits for or holds the session lock,
\* never runs infer, and what it returns is Err(InvalidArgument).
C1_EmptyTextRejected ==
  \A t \in Threads :
    (InCall(t) /\ call[t].text = << >>) =>
      /\ pc[t] \notin {"ready", "infer"}
      /\ mutex # t
      /\ pc[t] = "done" => result[t] = Err("InvalidArgument")

\* C2: generate with a recognized voice and a speed <= 0 returns an
\* InvalidArgument error, and every speed infer runs with is > 0.
C2_NonPositiveSpeedRejected ==
  \A t \in Threads :
    /\ (InCall(t) /\ call[t].voice \in available_voices /\ call[t].speed <= 0) =>
         /\ pc[t] \notin {"ready", "infer"}
         /\ pc[t] = "done" => result[t] = Err("InvalidArgument")
    /\ pc[t] = "infer" => InferArgs(t).speed > 0

\* C3: generate with a voice that is not one of the eight canonical names
\* returns an UnknownVoice error and does nothing else: nothing is
\* phonemized or encoded, the lock is not taken, infer is not called.
C3_UnknownVoiceRejected ==
  \A t \in Threads :
    (InCall(t) /\ call[t].voice \notin
        { "expr-voice-2-m", "expr-voice-2-f", "expr-voice-3-m", "expr-voice-3-f",
          "expr-voice-4-m", "expr-voice-4-f", "expr-voice-5-m", "expr-voice-5-f" }) =>
      /\ pc[t] = "done"
      /\ result[t] = Err("UnknownVoice")
      /\ phonemes[t] = << >>
      /\ tokens[t] = << >>
      /\ mutex # t

\* A call with the voice "nonexistent" has returned while another thread
\* is inside infer.
C3_Witness ==
  \E t, u \in Threads :
    /\ call[t].voice = "nonexistent"
    /\ call[t].text # << >>
    /\ pc[t] = "done"
    /\ result[t] = Err("UnknownVoice")
    /\ pc[u] = "infer"

\* The ids of the characters of s that the symbol table has, in order.
KnownIds(s) ==
  LET kept == SelectSeq(s, LAMBDA c : c \in DOMAIN SYMBOL_TO_ID)
  IN [i \in 1..Len(kept) |-> SYMBOL_TO_ID[kept[i]]]

\* C4: whenever infer runs, its batch has one row, the row starts and ends
\* with the pad id 0, has length >= 2, and between the two pads holds
\* exactly the ids of the phoneme string's known characters.
C4_TokensPadded ==
  \A t \in Threads :
    pc[t] = "infer" =>
      LET batch == InferArgs(t).input_ids
          row == batch[1]
      IN /\ Len(batch) = 1
         /\ Len(row) >= 2
         /\ row[1] = 0
         /\ row[Len(row)] = 0
         /\ SubSeq(row, 2, Len(row) - 1) = KnownIds(phonemes[t])

\* infer runs on [0, 0]: the phoneme string is not empty and none of its
\* characters is in the symbol table.
C4_Witness ==
  \E t \in Threads :
    /\ pc[t] = "infer"
    /\ phonemes[t] # << >>
    /\ \A i \in 1..Len(phonemes[t]) : phonemes[t][i] \notin DOMAIN SYMBOL_TO_ID
    /\ InferArgs(t).input_ids = << << 0, 0 >> >>

\* C8: at most one thread is inside infer at any time, and a thread inside
\* infer holds the facade's one session mutex.
C8_InferExclusive ==
  \A t, u \in Threads :
    /\ (pc[t] = "infer" /\ pc[u] = "infer") => t = u
    /\ pc[t] = "infer" => mutex = t

\* One thread is inside infer while another has reached the lock and waits.
C8_Witness ==
  \E t, u \in Threads :
    /\ t # u
    /\ pc[t] = "infer"
    /\ pc[u] = "ready"
    /\ mutex = t

\* C16: the session mutex is held by a thread only while that thread is
\* inside infer (so not during phonemization, encoding or the fixed trim,
\* and not after infer returned Ok or Err); a held mutex is eventually free
\* again; and when the mutex is free with calls waiting for it, one of
\* them eventually holds it and runs infer.
C16_LockReleased ==
  /\ [](\A t \in Threads : mutex = t => pc[t] = "infer")
  /\ \A t \in Threads : (mutex = t) ~> (mutex = NoThread)
  /\ (mutex = NoThread /\ \E t \in Threads : pc[t] = "ready")
       ~> (\E u \in Threads : pc[u] = "infer" /\ mutex = u)

\* One call has come back from infer with an error, and another call,
\* which was waiting or came later, is inside infer with the lock.
C16_Witness ==
  \E t, u \in Threads :
    /\ t # u
    /\ pc[t] = "done" /\ result[t] = Err("InferenceFailed")
    /\ pc[u] = "infer" /\ mutex = u

\* A call that has come back from infer with a waveform.
Returned(t) == pc[t] = "done" /\ result[t].kind = "Ok"

\* C11 as stated: whatever the length L of the raw waveform, generate
\* returns raw[5000 .. L-10000], a waveform of max(L - 15000, 0) samples.
C11_AlwaysStripped ==
  \A t \in Threads :
    Returned(t) =>
      LET r == result[t] IN
        /\ r.to - r.from = Max(r.raw - 15000, 0)
        /\ r.to > r.from => (r.from = 5000 /\ r.to = r.raw - 10000)

\* C11: a raw waveform of more than 15000 samples comes back as
\* raw[5000 .. L-10000], of L - 15000 samples; a raw waveform of at most
\* 15000 samples comes back whole, nothing dropped.
C11_StrippedWhenLongEnough ==
  \A t \in Threads :
    Returned(t) =>
      LET r == result[t] IN
        /\ r.raw > 15000 => (r.from = 5000 /\ r.to = r.raw - 10000)
        /\ r.raw <= 15000 => (r.from = 0 /\ r.to = r.raw)

\* One call got 15001 raw samples and returns the one sample at 5000, while
\* another got 15000 raw samples and returns all of them.
C11_Witness ==
  \E t, u \in Threads :
    /\ Returned(t) /\ Returned(u)
    /\ result[t] = [kind |-> "Ok", from |-> 5000, to |-> 5001, raw |-> 15001]
    /\ result[u] = [kind |-> "Ok", from |-> 0, to |-> 15000, raw |-> 15000]

(***************************************************************************)
(* Properties of the trimmer (SpecTrim)                                    *)
(***************************************************************************)

Trimmed == trimPc = "out"

AllZero(audio) == \A i \in 1..Len(audio) : audio[i].num = 0

\* C5: a non-empty output of trim_silence has a first sample of 0 when the
\* 5 ms fade-in is at least one sample long, and a last sample of 0 when
\* the 10 ms fade-out is at least one sample long.
C5_FadeEdgesZero ==
  (Trimmed /\ trimOut # << >>) =>
    /\ MsToSamples(5, trimIn.sample_rate) >= 1 => trimOut[1].num = 0
    /\ MsToSamples(10, trimIn.sample_rate) >= 1 => trimOut[Len(trimOut)].num = 0

\* C6: the output of trim_silence is never longer than its input, and an
\* input of zeros only comes back unchanged.
C6_TrimNoLonger ==
  Trimmed =>
    /\ Len(trimOut) <= Len(trimIn.audio)
    /\ AllZero(trimIn.audio) => trimOut = trimIn.audio

\* trim_silence has returned an input of MaxAudioLen zeros as it was.
C6_Witness ==
  /\ Trimmed
  /\ Len(trimIn.audio) = MaxAudioLen
  /\ AllZero(trimIn.audio)
  /\ trimOut = trimIn.audio

\* trim_silence has returned after running its scans and gates.
Scanned == Trimmed /\ trimLocals.reached

\* The 0-based indices i such that frames i and i + 1 of the envelope are
\* both voiced.
VoicedRuns ==
  LET v == trimLocals.voiced
  IN { i \in 0..(Len(v) - 2) : v[i + 1] /\ v[i + 2] }

\* C12: the start frame is the smallest index i such that frames i and
\* i + 1 are both voiced (so a voiced frame between unvoiced ones never
\* sets it), and 0 when no two consecutive frames are voiced.
C12_StartFrame ==
  Scanned =>
    /\ VoicedRuns # {} =>
          /\ trimLocals.start_frame \in VoicedRuns
          /\ \A i \in VoicedRuns : trimLocals.start_frame <= i
    /\ VoicedRuns = {} => trimLocals.start_frame = 0

\* Frame 0 is voiced, frame 1 is not, frames 2 and 3 are: the start frame
\* is 2, not 0.
C12_Witness ==
  /\ Scanned
  /\ Len(trimLocals.voiced) >= 4
  /\ trimLocals.voiced[1] /\ ~trimLocals.voiced[2]
  /\ trimLocals.voiced[3] /\ trimLocals.voiced[4]
  /\ trimLocals.start_frame = 2

\* C13: the end frame is the largest index j such that frames j - 1 and j
\* are both voiced, at most len - 1; it is len - 1 when no two consecutive
\* frames are voiced; and start frame <= end frame when a voiced run exists.
C13_EndFrame ==
  Scanned =>
    LET len == Len(trimLocals.voiced) IN
      /\ trimLocals.end_frame <= len - 1
      /\ VoicedRuns # {} =>
            /\ trimLocals.end_frame - 1 \in VoicedRuns
            /\ \A i \in VoicedRuns : i + 1 <= trimLocals.end_frame
            /\ trimLocals.start_frame <= trimLocals.end_frame
      /\ VoicedRuns = {} => trimLocals.end_frame = len - 1

\* Frames 0 and 1 are voiced, frame 2 is not, the last frame 3 is: the end
\* frame is 1, not 3.
C13_Witness ==
  /\ Scanned
  /\ Len(trimLocals.voiced) = 4
  /\ trimLocals.voiced[1] /\ trimLocals.voiced[2]
  /\ ~trimLocals.voiced[3] /\ trimLocals.voiced[4]
  /\ trimLocals.end_frame = 1

\* start_sample and end_sample of lines 117-118, before the gates.
UngatedStart == trimLocals.start_frame * trimLocals.hop_len

UngatedEnd == Min((trimLocals.end_frame + 1) * trimLocals.hop_len, Len(trimIn.audio))

\* The whole hops of silence before UngatedStart last less than
\* min_silence_ms: hops * hop_len / sample_rate < min_silence_ms / 1000.
HeadShort ==
  (UngatedStart \div trimLocals.hop_len) * trimLocals.hop_len * 1000
    < trimIn.min_silence_ms * trimIn.sample_rate

\* The whole hops of silence after UngatedEnd last less than min_silence_ms.
TailShort ==
  ((Len(trimIn.audio) - UngatedEnd) \div trimLocals.hop_len) * trimLocals.hop_len * 1000
    < trimIn.min_silence_ms * trimIn.sample_rate

\* C14: a leading silence shorter than min_silence_ms resets start_sample
\* to 0, a trailing silence shorter than min_silence_ms resets end_sample
\* to the length of the signal, each whatever the other does; with both
\* reset no sample is removed.
C14_SilenceGates ==
  Scanned =>
    /\ HeadShort => trimLocals.start_sample = 0
    /\ ~HeadShort => trimLocals.start_sample = UngatedStart
    /\ TailShort => trimLocals.end_sample = Len(trimIn.audio)
    /\ ~TailShort => trimLocals.end_sample = UngatedEnd
    /\ (HeadShort /\ TailShort) => Len(trimOut) = Len(trimIn.audio)

\* The head gate resets a start_sample that was past 0 while the tail gate
\* leaves an end_sample that is before the end of the signal.
C14_Witness ==
  /\ Scanned
  /\ HeadShort /\ UngatedStart > 0 /\ trimLocals.start_sample = 0
  /\ ~TailShort /\ trimLocals.end_sample < Len(trimIn.audio)

(***************************************************************************)
(* Properties of the provisioning (SpecProv)                               *)
(***************************************************************************)

\* C7: downloads are atomic: at every moment, also after a crash, a file
\* that exists at its final path holds the whole downloaded content.
C7_AtomicDownloads ==
  \A f \in FileSet : Exists(f) => Complete(f)

\* The position of a file in the order of with_provider.
FileIndex(f) == CHOOSE k \in 1..Len(Files) : Files[k] = f

\* The downloads of this construction were started in the order config.json,
\* graph, voices.npz, each file at most once, none ahead of the file
\* with_provider is at.
ProvisionOrder ==
  /\ \A i, j \in 1..Len(downloaded) :
        i < j => FileIndex(downloaded[i]) < FileIndex(downloaded[j])
  /\ \A i \in 1..Len(downloaded) : FileIndex(downloaded[i]) <= provFile

\* No step downloads a file that exists, and the only file a step writes to
\* is the one download_file is writing after finding it missing.
ExistingUntouched ==
  [][\A f \in FileSet :
       Exists(f) =>
         /\ Len(downloaded') > Len(downloaded) => downloaded'[Len(downloaded')] # f
         /\ disk'[f] # disk[f] => (provPc = "write" /\ f = Files[provFile])]_vars

\* A download of this construction has failed: the request failed, or the
\* server answered it with an error status.
DownloadFailed ==
  \/ provPc = "failed" /\ provFile <= Len(Files)
  \/ response = "error"
  \/ \E i \in 1..Len(downloaded) :
       Exists(downloaded[i]) /\ content[downloaded[i]] = "error"

\* with_provider has returned Ok.
Built == provPc = "built"

\* C15: the files are provisioned in the order config.json, graph,
\* voices.npz, each missing one downloaded once; once a download has failed
\* the construction is over, failed (or the process killed), nothing more
\* downloaded, no session opened and no voices loaded; and a built facade
\* has all three files.
C15_FailFastProvisioning ==
  /\ ProvisionOrder
  /\ DownloadFailed =>
       /\ provPc \in {"failed", "crashed"}
       /\ voices = EmptyMap
  /\ Built => \A f \in FileSet : Exists(f)

(***************************************************************************)
(* Properties of the symbol table (SpecSym)                                *)
(***************************************************************************)

Positions(c) == { i \in 1..Len(symbols) : symbols[i] = c }

FirstPosition(c) == CHOOSE i \in Positions(c) : \A j \in Positions(c) : i <= j

LastPosition(c) == CHOOSE i \in Positions(c) : \A j \in Positions(c) : i >= j

\* C9 as stated: ids are positions in pad + punctuation + letters + IPA
\* counted from 0, and a code point that occurs more than once has the
\* index of its first occurrence.
C9_FirstIndexWins ==
  SymDone =>
    /\ DOMAIN symMap = { symbols[i] : i \in 1..Len(symbols) }
    /\ \A c \in DOMAIN symMap : symMap[c] = FirstPosition(c) - 1

\* C9 as amended: ids are positions in pad + punctuation + letters + IPA
\* counted from 0, and a code point that occurs more than once has the
\* index of its last occurrence.
C9_LastIndexWins ==
  SymDone =>
    /\ DOMAIN symMap = { symbols[i] : i \in 1..Len(symbols) }
    /\ \A c \in DOMAIN symMap : symMap[c] = LastPosition(c) - 1

\* The table is complete; the double quote (at 11, 14, 15) has id 15 and
\* the apostrophe (at 174, 176) has id 176.
C9_Witness ==
  /\ SymDone
  /\ Positions(34) = {12, 15, 16}
  /\ Positions(39) = {175, 177}
  /\ symMap[34] = 15
  /\ symMap[39] = 176

(***************************************************************************)
(* Properties of the voice bank (SpecVoices)                               *)
(***************************************************************************)

\* C10: after load_voices every canonical name maps to a vector of width
\* 256, and a name absent from the archive to the all-zero vector of
\* length 256, whatever the archive holds.
C10_BankWidths ==
  (VoicesLoaded /\ voices # EmptyMap) =>
    \A n \in available_voices :
      /\ n \in DOMAIN voices
      /\ voices[n].len = 256
      /\ archive[n].kind = "absent" => voices[n] = Vector(256, 0)

====
